---- MODULE Spec2Model ----
(***************************************************************************)
(* ParkShare: access-token issuance and verification (HMAC-signed pass     *)
(* tokens), the verify / checkout / cancel route handlers over the         *)
(* subscription store, and the price calculation.                          *)
(*                                                                         *)
(* Strings are sequences of characters; a character is a one-character     *)
(* TLA+ string, except "U+E9" which stands for the non-ASCII character     *)
(* e-acute (two bytes in UTF-8).  Buffers are sequences of bytes 0..255.   *)
(***************************************************************************)
EXTENDS Integers, Sequences, FiniteSets, TLC

VARIABLES
    tk,       \* token experiment: arguments, token string, result of verifyAccessToken
    secret,   \* process.env.BILLING_MOCK_SECRET (0 = unset or empty)
    now,      \* the clock, in days
    subs,     \* Firestore collection 'subscriptions': id -> document
    reqs,     \* HTTP requests: request number -> position and locals of its handler
    price,    \* price experiment: arguments and result of calculatePrice
    pages,    \* open rate pages: page number -> component state and position of loadData
    reviews,  \* Firestore collection 'reviews': documents in the order they were added
    bookings  \* Firestore collection 'bookings': id -> document

vars == <<tk, secret, now, subs, reqs, price, pages, reviews, bookings>>

(***************************************************************************)
(* Bounds of the model.                                                    *)
(***************************************************************************)
\* width of the digest in bytes (SHA-256 has 32; 32 % 3 = 2 = DigestBytes % 3,
\* so the last signature character carries 4 digest bits and 2 padding bits)
DigestBytes == 2
\* the clock stops advancing here
MaxNow == 45
\* number of HTTP requests in one behaviour
MaxReqs == 2
\* the latest instant of the price experiment, in quarters of an hour
MaxQuarters == 200

(***************************************************************************)
(* Characters, UTF-8 and base64url.                                        *)
(***************************************************************************)
B64 == << "A","B","C","D","E","F","G","H","I","J","K","L","M",
          "N","O","P","Q","R","S","T","U","V","W","X","Y","Z",
          "a","b","c","d","e","f","g","h","i","j","k","l","m",
          "n","o","p","q","r","s","t","u","v","w","x","y","z",
          "0","1","2","3","4","5","6","7","8","9","-","_" >>

B64Set == { B64[i] : i \in 1..64 }

\* value 0..63 of a base64url character
B64Val == [ c \in B64Set |-> (CHOOSE i \in 1..64 : B64[i] = c) - 1 ]

Punct == { "{", "}", "\"", ":", ",", "\\", ".", "!" }

AsciiChars == B64Set \cup Punct

\* the ASCII code of a character
AsciiCode ==
    [ c \in AsciiChars |->
        IF c \in B64Set
        THEN LET i == B64Val[c] + 1
             IN  CASE i <= 26 -> 64 + i
                   [] i <= 52 -> 70 + i
                   [] i <= 62 -> i - 5
                   [] i = 63  -> 45
                   [] OTHER   -> 95
        ELSE CASE c = "{"  -> 123
               [] c = "}"  -> 125
               [] c = "\"" -> 34
               [] c = ":"  -> 58
               [] c = ","  -> 44
               [] c = "\\" -> 92
               [] c = "."  -> 46
               [] OTHER    -> 33 ]

AsciiCodes == { AsciiCode[c] : c \in AsciiChars }

AsciiChar == [ b \in AsciiCodes |-> CHOOSE c \in AsciiChars : AsciiCode[c] = b ]

\* the concatenation of the sequences ss[lo], ..., ss[hi]
RECURSIVE FlattenRange(_, _, _)
FlattenRange(ss, lo, hi) ==
    IF lo > hi THEN <<>>
    ELSE IF lo = hi THEN ss[lo]
    ELSE LET mid == (lo + hi) \div 2
         IN  FlattenRange(ss, lo, mid) \o FlattenRange(ss, mid + 1, hi)

Flatten(ss) == FlattenRange(ss, 1, Len(ss))

\* Buffer.from(str) / Buffer.from(str, 'utf-8'): the UTF-8 bytes of a string
Utf8Encode(str) ==
    Flatten([ i \in 1..Len(str) |->
                IF str[i] = "U+E9" THEN <<195, 169>> ELSE <<AsciiCode[str[i]]>> ])

\* buf.toString('utf-8'): invalid bytes decode to the replacement character
Utf8Decode(buf) ==
    Flatten([ i \in 1..Len(buf) |->
                CASE buf[i] = 195 /\ i < Len(buf) /\ buf[i + 1] = 169 -> <<"U+E9">>
                  [] buf[i] = 169 /\ i > 1 /\ buf[i - 1] = 195 -> <<>>
                  [] buf[i] \in AsciiCodes -> <<AsciiChar[buf[i]]>>
                  [] OTHER -> <<"U+FFFD">> ])

\* the base64url characters of the bytes buf[1], buf[2], buf[3] of one group;
\* a group of one or two bytes gives two or three characters (no padding)
Base64EncodeGroup(buf) ==
    CASE Len(buf) = 1 -> << B64[(buf[1] \div 4) + 1], B64[(buf[1] % 4) * 16 + 1] >>
      [] Len(buf) = 2 -> << B64[(buf[1] \div 4) + 1],
                            B64[(buf[1] % 4) * 16 + (buf[2] \div 16) + 1],
                            B64[(buf[2] % 16) * 4 + 1] >>
      [] OTHER        -> << B64[(buf[1] \div 4) + 1],
                            B64[(buf[1] % 4) * 16 + (buf[2] \div 16) + 1],
                            B64[(buf[2] % 16) * 4 + (buf[3] \div 64) + 1],
                            B64[(buf[3] % 64) + 1] >>

Min(a, b) == IF a < b THEN a ELSE b

\* buf.toString('base64url') / digest('base64url'): no padding
Base64UrlEncode(buf) ==
    Flatten([ g \in 1..((Len(buf) + 2) \div 3) |->
                Base64EncodeGroup(SubSeq(buf, 3 * g - 2, Min(3 * g, Len(buf)))) ])

\* the bytes of one group of up to four 6-bit values; a lone value gives no byte
Base64DecodeGroup(v) ==
    CASE Len(v) <= 1 -> <<>>
      [] Len(v) = 2  -> << v[1] * 4 + (v[2] \div 16) >>
      [] Len(v) = 3  -> << v[1] * 4 + (v[2] \div 16), (v[2] % 16) * 16 + (v[3] \div 4) >>
      [] OTHER       -> << v[1] * 4 + (v[2] \div 16), (v[2] % 16) * 16 + (v[3] \div 4),
                           (v[3] % 4) * 64 + v[4] >>

\* Buffer.from(str, 'base64url'): characters outside the alphabet are skipped
Base64UrlDecode(str) ==
    LET valid == SelectSeq(str, LAMBDA c : c \in B64Set)
        v == [ i \in 1..Len(valid) |-> B64Val[valid[i]] ]
    IN  Flatten([ g \in 1..((Len(v) + 3) \div 4) |->
                    Base64DecodeGroup(SubSeq(v, 4 * g - 3, Min(4 * g, Len(v)))) ])

(***************************************************************************)
(* JSON.stringify and JSON.parse on the token payload.                     *)
(***************************************************************************)
KeyBookingId == <<"b","o","o","k","i","n","g","I","d">>

KeyUserId == <<"u","s","e","r","I","d">>

KeyIssuedAt == <<"i","s","s","u","e","d","A","t">>

DigitChars == { B64[53 + d] : d \in 0..9 }

DigitVal(c) == B64Val[c] - 52

\* the decimal digits of a non-negative integer
RECURSIVE NumberToString(_)
NumberToString(n) ==
    IF n < 10 THEN << B64[53 + n] >>
    ELSE NumberToString(n \div 10) \o << B64[53 + (n % 10)] >>

\* the body of a JSON string literal: quote and backslash are escaped
\* (mutant) the string is written between the quotes as it is
JsonEscapeRaw(str) == str

JsonEscape(str) ==
    Flatten([ i \in 1..Len(str) |->
                IF str[i] \in {"\"", "\\"} THEN <<"\\", str[i]>> ELSE <<str[i]>> ])

JsonQuote(str) == <<"\"">> \o JsonEscape(str) \o <<"\"">>

\* JSON.stringify({ bookingId, userId, issuedAt })
JsonStringify(bookingId, userId, issuedAt) ==
    <<"{">> \o JsonQuote(KeyBookingId) \o <<":">> \o JsonQuote(bookingId)
    \o <<",">> \o JsonQuote(KeyUserId) \o <<":">> \o JsonQuote(userId)
    \o <<",">> \o JsonQuote(KeyIssuedAt) \o <<":">> \o NumberToString(issuedAt)
    \o <<"}">>

ParseFail == [ok |-> FALSE]

\* a string literal whose opening quote is before position i
RECURSIVE ParseStringBody(_, _, _)
ParseStringBody(t, i, acc) ==
    IF i > Len(t) THEN ParseFail
    ELSE IF t[i] = "\"" THEN [ok |-> TRUE, val |-> [t |-> "str", v |-> acc], next |-> i + 1]
    ELSE IF t[i] = "\\"
         THEN IF i + 1 <= Len(t) /\ t[i + 1] \in {"\"", "\\"}
              THEN ParseStringBody(t, i + 2, Append(acc, t[i + 1]))
              ELSE ParseFail
         ELSE ParseStringBody(t, i + 1, Append(acc, t[i]))

RECURSIVE ParseDigits(_, _, _)
ParseDigits(t, i, acc) ==
    IF i <= Len(t) /\ t[i] \in DigitChars
    THEN ParseDigits(t, i + 1, acc * 10 + DigitVal(t[i]))
    ELSE [ok |-> TRUE, val |-> [t |-> "num", v |-> acc], next |-> i]

\* a number: no leading zero before another digit
ParseNumber(t, i) ==
    IF i + 1 <= Len(t) /\ t[i] = "0" /\ t[i + 1] \in DigitChars
    THEN ParseFail
    ELSE ParseDigits(t, i, 0)

ParseValue(t, i) ==
    IF i > Len(t) THEN ParseFail
    ELSE IF t[i] = "\"" THEN ParseStringBody(t, i + 1, <<>>)
    ELSE IF t[i] \in DigitChars THEN ParseNumber(t, i)
    ELSE ParseFail

\* the members of an object after "{" or ","; a repeated key keeps the last value
RECURSIVE ParseMembers(_, _, _)
ParseMembers(t, i, obj) ==
    IF i > Len(t) \/ t[i] # "\"" THEN ParseFail
    ELSE LET k == ParseStringBody(t, i + 1, <<>>)
         IN  IF ~k.ok \/ k.next > Len(t) \/ t[k.next] # ":" THEN ParseFail
             ELSE LET v == ParseValue(t, k.next + 1)
                  IN  IF ~v.ok \/ v.next > Len(t) THEN ParseFail
                      ELSE LET obj2 == [ x \in DOMAIN obj \cup {k.val.v} |->
                                           IF x = k.val.v THEN v.val ELSE obj[x] ]
                           IN  CASE t[v.next] = "," -> ParseMembers(t, v.next + 1, obj2)
                                 [] t[v.next] = "}" ->
                                      [ok |-> TRUE, val |-> obj2, next |-> v.next + 1]
                                 [] OTHER -> ParseFail

JsonNull == <<"n","u","l","l">>

NoMembers == [ x \in {} |-> 0 ]

\* JSON.parse(text): [ok |-> FALSE] is the SyntaxError
JsonParse(t) ==
    IF t = JsonNull THEN [ok |-> TRUE, value |-> [kind |-> "null"]]
    ELSE IF t # <<>> /\ t[1] \in DigitChars
         THEN LET r == ParseNumber(t, 1)
              IN  IF r.ok /\ r.next = Len(t) + 1
                  THEN [ok |-> TRUE, value |-> [kind |-> "number", v |-> r.val.v]]
                  ELSE ParseFail
    ELSE IF t # <<>> /\ t[1] = "{"
         THEN IF Len(t) >= 2 /\ t[2] = "}"
              THEN IF Len(t) = 2
                   THEN [ok |-> TRUE, value |-> [kind |-> "object", obj |-> NoMembers]]
                   ELSE ParseFail
              ELSE LET r == ParseMembers(t, 2, NoMembers)
                   IN  IF r.ok /\ r.next = Len(t) + 1
                       THEN [ok |-> TRUE, value |-> [kind |-> "object", obj |-> r.val]]
                       ELSE ParseFail
    ELSE ParseFail

Undefined == [t |-> "undefined"]

\* value.key in JavaScript, for a value JSON.parse returned that is not null
Field(value, key) ==
    IF value.kind = "object" /\ key \in DOMAIN value.obj THEN value.obj[key] ELSE Undefined

(***************************************************************************)
(* HMAC token helpers.                                                     *)
(***************************************************************************)
NoSecret == 0

DigestModulus == 256 ^ DigestBytes

\* the digest state after absorbing the bytes buf[lo], ..., buf[hi] into h
RECURSIVE HmacFold(_, _, _, _)
HmacFold(h, buf, lo, hi) ==
    IF lo > hi THEN h
    ELSE IF lo = hi THEN (h * 31 + buf[lo] + 1) % DigestModulus
    ELSE LET mid == (lo + hi) \div 2
             left == HmacFold(h, buf, lo, mid)
         IN  \* the test makes TLC evaluate left before it descends
             IF left < DigestModulus THEN HmacFold(left, buf, mid + 1, hi) ELSE left

\* crypto.createHmac('sha256', key).update(str).digest(): a keyed digest of fixed
\* width over the UTF-8 bytes of str.  SHA-256 is scaled down to DigestBytes
\* bytes; the digest keeps its dependence on the key and on every byte.
HmacDigest(key, str) ==
    LET buf == Utf8Encode(str)
        h == HmacFold(key, buf, 1, Len(buf))
    IN  [ i \in 1..DigestBytes |-> (h \div (256 ^ (DigestBytes - i))) % 256 ]

\* str.split('.'): the segments between the dots, empty ones included
SplitDot(str) ==
    LET dots == SelectSeq([ i \in 1..Len(str) |-> i ], LAMBDA i : str[i] = ".")
        cuts == <<0>> \o dots \o <<Len(str) + 1>>
    IN  [ k \in 1..(Len(cuts) - 1) |-> SubSeq(str, cuts[k] + 1, cuts[k + 1] - 1) ]

Throw(e) == [ok |-> FALSE, error |-> e]

\* getSecret(): throws when the variable is unset or empty
getSecret(env) ==
    IF env = NoSecret THEN Throw("MissingSecret") ELSE [ok |-> TRUE, value |-> env]

\* the payload segment of a token
TokenPayload(bookingId, userId, issuedAt) ==
    Base64UrlEncode(Utf8Encode(JsonStringify(bookingId, userId, issuedAt)))

\* the signature segment over a payload segment
TokenSignature(key, payload) == Base64UrlEncode(HmacDigest(key, payload))

\* signAccessToken(bookingId, userId) at time t under environment env
signAccessToken(bookingId, userId, t, env) ==
    LET payload == TokenPayload(bookingId, userId, t)
        s == getSecret(env)
    IN  IF ~s.ok THEN s
        ELSE [ok |-> TRUE, value |-> payload \o <<".">> \o TokenSignature(s.value, payload)]

\* (mutant) the digests are compared after base64url decoding
timingSafeEqualDecoded(a, b) ==
    IF Len(Base64UrlDecode(a)) # Len(Base64UrlDecode(b)) THEN Throw("RangeError")
    ELSE [ok |-> TRUE, value |-> (Base64UrlDecode(a) = Base64UrlDecode(b))]

\* crypto.timingSafeEqual(Buffer.from(a), Buffer.from(b)): throws a RangeError
\* when the byte lengths differ
timingSafeEqual(a, b) ==
    IF Len(Utf8Encode(a)) # Len(Utf8Encode(b)) THEN Throw("RangeError")
    ELSE [ok |-> TRUE, value |-> (Utf8Encode(a) = Utf8Encode(b))]

\* verifyAccessToken(token) under environment env: the decoded payload, or the
\* exception thrown
verifyAccessToken(token, env) ==
    LET parts == SplitDot(token)
        payload == parts[1]
        sig == IF Len(parts) >= 2 THEN parts[2] ELSE <<>>
    IN  IF payload = <<>> \/ sig = <<>> THEN Throw("MalformedToken")
        ELSE LET s == getSecret(env)
             IN  IF ~s.ok THEN s
                 ELSE LET eq == timingSafeEqual(sig, TokenSignature(s.value, payload))
                      IN  IF ~eq.ok THEN eq
                          ELSE IF ~eq.value THEN Throw("InvalidSignature")
                          ELSE LET p == JsonParse(Utf8Decode(Base64UrlDecode(payload)))
                               IN  IF p.ok THEN p ELSE Throw("SyntaxError")

(***************************************************************************)
(* Token experiment: signAccessToken and verifyAccessToken as functions.   *)
(* A token is issued for chosen arguments, optionally altered, then        *)
(* verified.                                                               *)
(***************************************************************************)
\* identifiers, among them ones with '.', '"', '\' and a non-ASCII character
TokIds == { <<"a">>, <<"s","1">>, <<".","\"">>, <<"\\","U+E9">> }

TokTimes == { 0, 9, 10, 45 }

SecretKey == 7

Secrets == { NoSecret, SecretKey }

\* replacement characters of the single-character alteration
TamperChars == { "A", "B", "_", ".", "U+E9" }

\* the base64url character whose value differs in the lowest bit
FlipLowBit(c) ==
    IF c \in B64Set
    THEN B64[(IF B64Val[c] % 2 = 0 THEN B64Val[c] + 1 ELSE B64Val[c] - 1) + 1]
    ELSE "A"

\* strings that are not two non-empty segments around one '.'
RawTokens == { <<>>, <<".">>, <<"a">>, <<"a",".">>, <<".","a">>, <<"a","b","c">> }

\* payload plaintexts that are not the record signAccessToken writes
ForgedPlaintexts ==
    { JsonNull, <<"{">>, <<"7">>, <<"{","}">>, <<"!">>,
      <<"{">> \o JsonQuote(KeyBookingId) \o <<":">> \o JsonQuote(<<"a">>) }

DotPos(token) == CHOOSE i \in 1..Len(token) : token[i] = "."

TokInit ==
    /\ bookings = <<>>
    /\ pages = <<>>
    /\ reviews = <<>>
    /\ secret \in Secrets
    /\ now \in TokTimes
    /\ \E b \in TokIds, u \in TokIds :
         tk = [phase |-> "args", bookingId |-> b, userId |-> u, issuedAt |-> 0,
               token |-> <<>>, how |-> "none", pos |-> 0, repl |-> "none",
               result |-> [ok |-> FALSE, error |-> "none"]]
    /\ subs = <<>>
    /\ reqs = <<>>
    /\ price = [phase |-> "off"]

\* signAccessToken(bookingId, userId)
TokIssue ==
    /\ tk.phase = "args"
    /\ LET r == signAccessToken(tk.bookingId, tk.userId, now, secret)
       IN  tk' = IF r.ok
                 THEN [tk EXCEPT !.phase = "token", !.issuedAt = now,
                                 !.token = r.value, !.how = "issued"]
                 ELSE [tk EXCEPT !.phase = "threw", !.result = r]
    /\ UNCHANGED <<bookings, pages, reviews, secret, now, subs, reqs, price>>

\* one character of the payload or of the signature segment is replaced
TokTamper ==
    /\ tk.phase = "token" /\ tk.how = "issued"
    /\ \E i \in 1..Len(tk.token) :
         \E c \in TamperChars \cup {FlipLowBit(tk.token[i])} :
            /\ tk.token[i] # "."
            /\ c # tk.token[i]
            /\ tk' = [tk EXCEPT !.token = [tk.token EXCEPT ![i] = c],
                                !.how = IF i < DotPos(tk.token) THEN "payload" ELSE "signature",
                                !.pos = i, !.repl = c]
    /\ UNCHANGED <<bookings, pages, reviews, secret, now, subs, reqs, price>>

\* '.x' is appended to an issued token
TokAppend ==
    /\ tk.phase = "token" /\ tk.how = "issued"
    /\ tk' = [tk EXCEPT !.token = tk.token \o <<".", "x">>, !.how = "appended"]
    /\ UNCHANGED <<bookings, pages, reviews, secret, now, subs, reqs, price>>

\* the '.' of an issued token is removed
TokJoin ==
    /\ tk.phase = "token" /\ tk.how = "issued"
    /\ tk' = [tk EXCEPT !.token = SelectSeq(tk.token, LAMBDA c : c # "."), !.how = "joined"]
    /\ UNCHANGED <<bookings, pages, reviews, secret, now, subs, reqs, price>>

\* a string that was never issued
TokRaw ==
    /\ tk.phase = "args"
    /\ \E s \in RawTokens : tk' = [tk EXCEPT !.phase = "token", !.token = s, !.how = "raw"]
    /\ UNCHANGED <<bookings, pages, reviews, secret, now, subs, reqs, price>>

\* a token signed with the process secret over another plaintext
TokForge ==
    /\ tk.phase = "args" /\ secret # NoSecret
    /\ \E plain \in ForgedPlaintexts :
         LET payload == Base64UrlEncode(Utf8Encode(plain))
         IN  tk' = [tk EXCEPT !.phase = "token", !.how = "forged",
                              !.token = payload \o <<".">> \o TokenSignature(secret, payload)]
    /\ UNCHANGED <<bookings, pages, reviews, secret, now, subs, reqs, price>>

\* verifyAccessToken(token)
TokVerify ==
    /\ tk.phase = "token"
    /\ tk' = [tk EXCEPT !.phase = "verified", !.result = verifyAccessToken(tk.token, secret)]
    /\ UNCHANGED <<bookings, pages, reviews, secret, now, subs, reqs, price>>

TokNext == TokIssue \/ TokAppend \/ TokJoin \/ TokRaw \/ TokForge \/ TokTamper \/ TokVerify

SpecToken == TokInit /\ [][TokNext]_vars

(***************************************************************************)
(* Claims about the token functions.                                       *)
(***************************************************************************)
StrVal(s) == [t |-> "str", v |-> s]

NumVal(n) == [t |-> "num", v |-> n]

\* C1: round trip.  Verifying a token that signAccessToken returned succeeds
\* and yields the bookingId and userId it was issued for and the issuedAt
\* captured at issuance.
C1_RoundTrip ==
    (tk.phase = "verified" /\ tk.how = "issued") =>
        /\ tk.result.ok
        /\ tk.result.value.kind = "object"
        /\ Field(tk.result.value, KeyBookingId) = StrVal(tk.bookingId)
        /\ Field(tk.result.value, KeyUserId) = StrVal(tk.userId)
        /\ Field(tk.result.value, KeyIssuedAt) = NumVal(tk.issuedAt)

C1_Witness ==
    /\ tk.phase = "verified" /\ tk.how = "issued" /\ tk.result.ok
    /\ tk.bookingId = <<".", "\"">> /\ tk.userId = <<"\\", "U+E9">> /\ tk.issuedAt = 10

WellFormed(token) ==
    /\ Cardinality({ i \in 1..Len(token) : token[i] = "." }) = 1
    /\ token[1] # "."
    /\ token[Len(token)] # "."

\* C4 as stated: every input that is not two non-empty segments around exactly
\* one '.' fails with the malformed-token failure.
C4_MalformedRejected ==
    (tk.phase = "verified" /\ ~WellFormed(tk.token)) => tk.result = Throw("MalformedToken")

(***************************************************************************)
(* The route handlers over the stores.  A handler runs up to its next      *)
(* await in one step; the store is read or written in the step that        *)
(* follows the await.                                                      *)
(***************************************************************************)
Driver1 == <<"d", "1">>

Driver2 == <<"d", "2">>

Drivers == { Driver1, Driver2 }

\* the request carries no credentials / credentials verifyIdToken rejects
NoAuth == <<"-">>

BadAuth == <<"!">>

Listing1 == <<"l", "1">>

\* Firestore collection 'listings' (not written by these handlers)
listings ==
    [ x \in {Listing1} |->
        [hostId |-> <<"h", "1">>, monthlyRate |-> 120, address |-> "1 Main St",
         city |-> "Toronto"] ]

\* Firestore collection 'users' (not written by these handlers)
users == [ x \in {Driver1} |-> [displayName |-> "Dee"] ]

\* (mutant) doc() returns the same id every time
SubIdFixed(r) == <<"s", "0">>

\* the id adminDb.collection(...).doc() allocates for request number r
SubId(r) == <<"s">> \o NumberToString(r)

AllSubIds == { SubId(r) : r \in 0..MaxReqs }

\* days by which the clock advances in one step
TickDays == { 15 }

\* 30 * 24 * 60 * 60 * 1000 ms
PeriodDays == 30

BadJson == [json |-> FALSE]

Json(b) == [json |-> TRUE, body |-> b]

Respond(status, body) == [thrown |-> FALSE, status |-> status, body |-> body]

\* the handler ends by an exception nobody catches
Unhandled(e) == [thrown |-> TRUE, error |-> e]

Done(r, resp) == [r EXCEPT !.pc = "done", !.resp = resp]

NoResp == [thrown |-> FALSE, status |-> 0]

InFlight == { i \in 1..Len(reqs) : reqs[i].pc # "done" }

Finished == { i \in 1..Len(reqs) : reqs[i].pc = "done" }

CanBegin == Len(reqs) < MaxReqs

NewReq(kind, auth, body) ==
    [kind |-> kind, pc |-> "begin", auth |-> auth, body |-> body, after |-> Finished,
     resp |-> NoResp]

\* getVerifiedTokenFromRequest(request): null without credentials, the decoded
\* token, or the exception verifyIdToken throws
getVerifiedTokenFromRequest(auth) ==
    IF auth = BadAuth THEN Throw("auth/argument-error")
    ELSE [ok |-> TRUE, value |-> auth]

\* (mutant) the document names the host as the driver
SubscriptionDocHost(listingId, uid, vehiclePlate, t, accessToken) ==
    [listingId |-> listingId,
     hostId |-> listings[listingId].hostId,
     driverId |-> listings[listingId].hostId,
     monthlyRateCents |-> listings[listingId].monthlyRate * 100,
     currency |-> "CAD",
     status |-> "active",
     currentPeriodStart |-> t,
     currentPeriodEnd |-> t + PeriodDays,
     accessToken |-> accessToken,
     vehiclePlate |-> IF vehiclePlate = "" THEN "UNKNOWN" ELSE vehiclePlate,
     createdAt |-> t,
     updatedAt |-> t]

\* the document checkout writes for the caller uid at time t
SubscriptionDoc(listingId, uid, vehiclePlate, t, accessToken) ==
    [listingId |-> listingId,
     hostId |-> listings[listingId].hostId,
     driverId |-> uid,
     monthlyRateCents |-> listings[listingId].monthlyRate * 100,
     currency |-> "CAD",
     status |-> "active",
     currentPeriodStart |-> t,
     currentPeriodEnd |-> t + PeriodDays,
     accessToken |-> accessToken,
     vehiclePlate |-> IF vehiclePlate = "" THEN "UNKNOWN" ELSE vehiclePlate,
     createdAt |-> t,
     updatedAt |-> t]

NoSubs == [ x \in {} |-> 0 ]

\* the store after an earlier checkout of Driver1 for Listing1 at time 0
OneSub ==
    [ x \in {SubId(0)} |->
        SubscriptionDoc(Listing1, Driver1, "ABC123", 0,
                        signAccessToken(SubId(0), Driver1, 0, secret).value) ]

\* the process has started; the store is empty or holds one earlier subscription
\* (none can exist without the secret: checkout signs before it writes)
Init ==
    /\ bookings = <<>>
    /\ pages = <<>>
    /\ reviews = <<>>
    /\ secret \in Secrets
    /\ now = 0
    /\ subs \in (IF secret = NoSecret THEN {NoSubs} ELSE {NoSubs, OneSub})
    /\ reqs = <<>>
    /\ tk = [phase |-> "off"]
    /\ price = [phase |-> "off"]

Tick ==
    /\ \E d \in TickDays : now + d <= MaxNow /\ now' = now + d
    /\ UNCHANGED <<bookings, pages, reviews, tk, secret, subs, reqs, price>>

(***************************************************************************)
(* POST /api/checkout/mock                                                 *)
(***************************************************************************)
CheckoutBodies ==
    { BadJson,
      Json([listingId |-> <<>>, outcome |-> "success", vehiclePlate |-> "ABC123",
            idempotencyKey |-> "k1"]),
      Json([listingId |-> Listing1, outcome |-> "", vehiclePlate |-> "ABC123",
            idempotencyKey |-> "k1"]),
      Json([listingId |-> Listing1, outcome |-> "failure", vehiclePlate |-> "ABC123",
            idempotencyKey |-> "k1"]),
      Json([listingId |-> Listing1, outcome |-> "success", vehiclePlate |-> "ABC123",
            idempotencyKey |-> "k1"]),
      Json([listingId |-> Listing1, outcome |-> "success", vehiclePlate |-> "",
            idempotencyKey |-> "k1"]),
      Json([listingId |-> <<"l", "9">>, outcome |-> "success", vehiclePlate |-> "ABC123",
            idempotencyKey |-> "k1"]) }

\* steps 1 and 2: authentication and body; then the idempotency query is sent
CheckoutBegin ==
    /\ CanBegin
    /\ \E auth \in Drivers \cup {NoAuth, BadAuth}, body \in CheckoutBodies :
         /\ auth \in {NoAuth, BadAuth} => body = BadJson
         /\ LET r == NewReq("checkout", auth, body)
                decoded == getVerifiedTokenFromRequest(auth)
            IN  reqs' = Append(reqs,
                   CASE ~decoded.ok -> Done(r, Unhandled(decoded.error))
                     [] decoded.value = NoAuth ->
                          Done(r, Respond(401, [success |-> FALSE, error |-> "Unauthorized"]))
                     [] ~body.json ->
                          Done(r, Respond(400, [success |-> FALSE, error |-> "Invalid JSON body"]))
                     [] body.body.listingId = <<>> \/ body.body.outcome = "" ->
                          Done(r, Respond(422, [success |-> FALSE,
                                                error |-> "Missing required fields: listingId, outcome"]))
                     [] OTHER -> [r EXCEPT !.pc = "query"])
    /\ UNCHANGED <<bookings, pages, reviews, tk, secret, now, subs, price>>

\* step 3 and 4: the result of the idempotency query, then the simulated failure
CheckoutQuery(i) ==
    /\ reqs[i].kind = "checkout" /\ reqs[i].pc = "query"
    /\ LET r == reqs[i]
           existing == { id \in DOMAIN subs :
                           /\ subs[id].driverId = r.auth
                           /\ subs[id].listingId = r.body.body.listingId
                           /\ subs[id].status = "active" }
       IN  IF existing # {}
           THEN \E id \in existing :
                  reqs' = [reqs EXCEPT ![i] =
                             Done(r, Respond(200, [success |-> TRUE, subscriptionId |-> id]))]
           ELSE IF r.body.body.outcome = "failure"
           THEN reqs' = [reqs EXCEPT ![i] =
                           Done(r, Respond(402, [success |-> FALSE,
                                                 error |-> "Payment failed (simulated)"]))]
           ELSE reqs' = [reqs EXCEPT ![i] = [r EXCEPT !.pc = "listing"]]
    /\ UNCHANGED <<bookings, pages, reviews, tk, secret, now, subs, price>>

\* step 5 a-e: the listing, the price, the dates, the id, the access token; then
\* the subscription document is sent to the store
CheckoutListing(i) ==
    /\ reqs[i].kind = "checkout" /\ reqs[i].pc = "listing"
    /\ LET r == reqs[i]
           b == r.body.body
           subscriptionId == SubId(i)
           accessToken == signAccessToken(subscriptionId, r.auth, now, secret)
       IN  reqs' = [reqs EXCEPT ![i] =
              IF b.listingId \notin DOMAIN listings
              THEN Done(r, Respond(404, [success |-> FALSE, error |-> "Listing not found"]))
              ELSE IF ~accessToken.ok THEN Done(r, Unhandled(accessToken.error))
              ELSE [kind |-> "checkout", pc |-> "write", auth |-> r.auth, body |-> r.body,
                    after |-> r.after, resp |-> NoResp,
                    subscriptionId |-> subscriptionId,
                    doc |-> SubscriptionDoc(b.listingId, r.auth, b.vehiclePlate, now,
                                            accessToken.value)]]
    /\ UNCHANGED <<bookings, pages, reviews, tk, secret, now, subs, price>>

\* (mutant) the document replaces a cancelled subscription of the same driver
\* and listing when there is one
CheckoutWriteReactivate(i) ==
    /\ reqs[i].kind = "checkout" /\ reqs[i].pc = "write"
    /\ LET r == reqs[i]
           former == { id \in DOMAIN subs :
                         /\ subs[id].driverId = r.auth
                         /\ subs[id].listingId = r.doc.listingId
                         /\ subs[id].status = "cancelled" }
           target == IF former = {} THEN r.subscriptionId ELSE CHOOSE id \in former : TRUE
       IN  /\ subs' = [ id \in DOMAIN subs \cup {target} |->
                          IF id = target THEN r.doc ELSE subs[id] ]
           /\ reqs' = [reqs EXCEPT ![i] =
                         Done(r, Respond(201, [success |-> TRUE, subscriptionId |-> target]))]
    /\ UNCHANGED <<bookings, pages, reviews, tk, secret, now, price>>

\* step 5 f-g: the document is written, the response is 201
CheckoutWrite(i) ==
    /\ reqs[i].kind = "checkout" /\ reqs[i].pc = "write"
    /\ LET r == reqs[i]
       IN  /\ subs' = [ id \in DOMAIN subs \cup {r.subscriptionId} |->
                          IF id = r.subscriptionId THEN r.doc ELSE subs[id] ]
           /\ reqs' = [reqs EXCEPT ![i] =
                         Done(r, Respond(201, [success |-> TRUE,
                                               subscriptionId |-> r.subscriptionId]))]
    /\ UNCHANGED <<bookings, pages, reviews, tk, secret, now, price>>

(***************************************************************************)
(* POST /api/checkout/cancel                                               *)
(***************************************************************************)
CancelBodies == { BadJson, Json([subscriptionId |-> <<>>]) }
                    \cup { Json([subscriptionId |-> id]) : id \in AllSubIds }

\* steps 1 and 2: authentication and body; then the subscription is requested
CancelBegin ==
    /\ CanBegin
    /\ \E auth \in Drivers \cup {NoAuth, BadAuth}, body \in CancelBodies :
         /\ auth \in {NoAuth, BadAuth} => body = BadJson
         /\ LET r == NewReq("cancel", auth, body)
                decoded == getVerifiedTokenFromRequest(auth)
            IN  reqs' = Append(reqs,
                   CASE ~decoded.ok -> Done(r, Unhandled(decoded.error))
                     [] decoded.value = NoAuth ->
                          Done(r, Respond(401, [success |-> FALSE, error |-> "Unauthorized"]))
                     [] ~body.json ->
                          Done(r, Respond(400, [success |-> FALSE, error |-> "Invalid JSON body"]))
                     [] body.body.subscriptionId = <<>> ->
                          Done(r, Respond(422, [success |-> FALSE,
                                                error |-> "Missing required field: subscriptionId"]))
                     [] OTHER -> [r EXCEPT !.pc = "get"])
    /\ UNCHANGED <<bookings, pages, reviews, tk, secret, now, subs, price>>

\* step 3: the subscription as read, the ownership check, the already cancelled case
CancelGet(i) ==
    /\ reqs[i].kind = "cancel" /\ reqs[i].pc = "get"
    /\ LET r == reqs[i]
           id == r.body.body.subscriptionId
       IN  reqs' = [reqs EXCEPT ![i] =
              IF id \notin DOMAIN subs
              THEN Done(r, Respond(404, [success |-> FALSE, error |-> "Subscription not found"]))
              ELSE IF subs[id].driverId # r.auth
              THEN Done(r, Respond(403, [success |-> FALSE,
                                         error |-> "Forbidden: you do not own this subscription"]))
              ELSE IF subs[id].status = "cancelled"
              THEN Done(r, Respond(200, [success |-> TRUE]))
              ELSE [r EXCEPT !.pc = "update"]]
    /\ UNCHANGED <<bookings, pages, reviews, tk, secret, now, subs, price>>

\* the document old after update({status: 'cancelled', cancelledAt, updatedAt}) at time t
CancelledDoc(old, t) ==
    [ f \in DOMAIN old \cup {"cancelledAt"} |->
        CASE f = "status" -> "cancelled"
          [] f \in {"cancelledAt", "updatedAt"} -> t
          [] OTHER -> old[f] ]

\* step 4: the update is applied, the response is 200
CancelUpdate(i) ==
    /\ reqs[i].kind = "cancel" /\ reqs[i].pc = "update"
    /\ LET r == reqs[i]
           id == r.body.body.subscriptionId
           old == subs[id]
       IN  /\ subs' = [subs EXCEPT ![id] = CancelledDoc(old, now)]
           /\ reqs' = [reqs EXCEPT ![i] = Done(r, Respond(200, [success |-> TRUE]))]
    /\ UNCHANGED <<bookings, pages, reviews, tk, secret, now, price>>

(***************************************************************************)
(* POST /api/verify                                                        *)
(***************************************************************************)
\* a token signed with the process secret for a subscription id no checkout allocates
StrayToken == signAccessToken(<<"s", "9">>, Driver1, 0, secret)

\* a token signed with the process secret over a plaintext JSON.parse rejects, and
\* over the plaintext null
SignedPlaintext(plain) ==
    LET payload == Base64UrlEncode(Utf8Encode(plain))
    IN  payload \o <<".">> \o TokenSignature(secret, payload)

\* the token with its last character replaced
AlterLast(token) == [token EXCEPT ![Len(token)] = FlipLowBit(token[Len(token)])]

\* the token with the first character of its payload replaced
AlterFirst(token) == [token EXCEPT ![1] = FlipLowBit(token[1])]

\* the tokens a caller submits: those stored in subscriptions, alterations of
\* them, strings that are no token, and tokens signed for other contents
VerifyTokens ==
    LET issued == { subs[id].accessToken : id \in DOMAIN subs }
    IN  issued
        \cup { AlterLast(t) : t \in issued }
        \cup { AlterFirst(t) : t \in issued }
        \cup { t \o <<".", "x">> : t \in issued }
        \cup { <<"a", "b", "c">>, <<"a", ".", "b">>, <<".", "a">> }
        \cup (IF secret = NoSecret THEN {}
              ELSE { StrayToken.value, SignedPlaintext(<<"{">>), SignedPlaintext(JsonNull) })

VerifyBodies == { BadJson, Json([x |-> 0]), Json([token |-> <<>>]) }
                    \cup { Json([token |-> t]) : t \in VerifyTokens }

InvalidToken == [valid |-> FALSE, reason |-> "invalid_token"]

\* the response to a body that cannot be parsed or carries no token
VerifyNoToken == Respond(400, InvalidToken)

\* (mutant) the response names the exception
VerifyCatchLeaky(e) == Respond(200, [valid |-> FALSE, reason |-> e])

\* the catch blocks: the response to the exception e thrown while the token is
\* verified or the subscription id is taken from its payload
VerifyCatch(e) == Respond(200, InvalidToken)

\* (mutant) the period end is checked before the status
LookupDecisionExpiryFirst(store, id, t) ==
    IF id \notin DOMAIN store THEN [valid |-> FALSE, reason |-> "not_found"]
    ELSE IF store[id].currentPeriodEnd <= t THEN [valid |-> FALSE, reason |-> "expired"]
    ELSE IF store[id].status # "active"
    THEN [valid |-> FALSE, reason |-> "subscription_inactive", detail |-> store[id].status]
    ELSE [valid |-> TRUE]

\* (mutant) the status is not checked
LookupDecisionNoStatus(store, id, t) ==
    IF id \notin DOMAIN store THEN [valid |-> FALSE, reason |-> "not_found"]
    ELSE IF store[id].currentPeriodEnd <= t THEN [valid |-> FALSE, reason |-> "expired"]
    ELSE [valid |-> TRUE]

\* steps 3 to 5 on the subscription read from the store at time t: the body of
\* the invalid response, or valid
LookupDecision(store, id, t) ==
    IF id \notin DOMAIN store THEN [valid |-> FALSE, reason |-> "not_found"]
    ELSE IF store[id].status # "active"
    THEN [valid |-> FALSE, reason |-> "subscription_inactive", detail |-> store[id].status]
    ELSE IF store[id].currentPeriodEnd <= t THEN [valid |-> FALSE, reason |-> "expired"]
    ELSE [valid |-> TRUE]

\* steps 1 and 2: the body, the token, verifyAccessToken; then the subscription
\* is requested.  doc(subscriptionId) throws unless the id is a non-empty string.
VerifyBegin ==
    /\ CanBegin
    /\ \E body \in VerifyBodies :
         LET r == NewReq("verify", NoAuth, body)
             hasToken == body.json /\ "token" \in DOMAIN body.body /\ body.body.token # <<>>
             payload == verifyAccessToken(body.body.token, secret)
             bookingId == Field(payload.value, KeyBookingId)
         IN  reqs' = Append(reqs,
                CASE ~body.json -> Done(r, VerifyNoToken)
                  [] ~hasToken -> Done(r, VerifyNoToken)
                  [] ~payload.ok -> Done(r, VerifyCatch(payload.error))
                  [] payload.value.kind = "null" -> Done(r, VerifyCatch("TypeError"))
                  [] bookingId.t # "str" \/ bookingId.v = <<>> ->
                       Done(r, VerifyCatch("FirestoreArgumentError"))
                  [] OTHER ->
                       [kind |-> "verify", pc |-> "lookup", auth |-> NoAuth, body |-> body,
                        after |-> r.after, resp |-> NoResp,
                        subscriptionId |-> bookingId.v])
    /\ UNCHANGED <<bookings, pages, reviews, tk, secret, now, subs, price>>

\* (mutant) the lookup stamps the subscription it reads
VerifyLookupTouch(i) ==
    /\ reqs[i].kind = "verify" /\ reqs[i].pc = "lookup"
    /\ LET r == reqs[i]
           id == r.subscriptionId
           decision == LookupDecision(subs, id, now)
       IN  /\ reqs' = [reqs EXCEPT ![i] =
                 IF ~decision.valid THEN Done(r, Respond(200, decision))
                 ELSE [kind |-> "verify", pc |-> "details", auth |-> NoAuth, body |-> r.body,
                       after |-> r.after, resp |-> NoResp,
                       subscriptionId |-> id, subscription |-> subs[id], lookupAt |-> now]]
           /\ subs' = IF id \in DOMAIN subs
                      THEN [subs EXCEPT ![id] = [@ EXCEPT !.updatedAt = now + 1]]
                      ELSE subs
    /\ UNCHANGED <<bookings, pages, reviews, tk, secret, now, price>>

\* steps 3 to 5: the subscription as read, its status, its period end
VerifyLookup(i) ==
    /\ reqs[i].kind = "verify" /\ reqs[i].pc = "lookup"
    /\ LET r == reqs[i]
           id == r.subscriptionId
           decision == LookupDecision(subs, id, now)
       IN  reqs' = [reqs EXCEPT ![i] =
              IF ~decision.valid THEN Done(r, Respond(200, decision))
              ELSE [kind |-> "verify", pc |-> "details", auth |-> NoAuth, body |-> r.body,
                    after |-> r.after, resp |-> NoResp,
                    subscriptionId |-> id, subscription |-> subs[id], lookupAt |-> now]]
    /\ UNCHANGED <<bookings, pages, reviews, tk, secret, now, subs, price>>

\* steps 6 to 8: the driver's name, the listing's address, the valid response
VerifyDetails(i) ==
    /\ reqs[i].kind = "verify" /\ reqs[i].pc = "details"
    /\ LET r == reqs[i]
           sub == r.subscription
           driverName == IF sub.driverId \in DOMAIN users
                         THEN users[sub.driverId].displayName ELSE "Unknown Driver"
           listingAddress == IF sub.listingId \in DOMAIN listings
                             THEN <<listings[sub.listingId].address, listings[sub.listingId].city>>
                             ELSE <<"Unknown Address">>
       IN  reqs' = [reqs EXCEPT ![i] =
              Done(r, Respond(200, [valid |-> TRUE, driverName |-> driverName,
                                    listingAddress |-> listingAddress,
                                    vehiclePlate |-> sub.vehiclePlate,
                                    expiresAt |-> sub.currentPeriodEnd]))]
    /\ UNCHANGED <<bookings, pages, reviews, tk, secret, now, subs, price>>

Next ==
    \/ Tick
    \/ CheckoutBegin
    \/ \E i \in InFlight : CheckoutQuery(i)
    \/ \E i \in InFlight : CheckoutListing(i)
    \/ \E i \in InFlight : CheckoutWrite(i)
    \/ CancelBegin
    \/ \E i \in InFlight : CancelGet(i)
    \/ \E i \in InFlight : CancelUpdate(i)
    \/ VerifyBegin
    \/ \E i \in InFlight : VerifyLookup(i)
    \/ \E i \in InFlight : VerifyDetails(i)

Spec == Init /\ [][Next]_vars

(***************************************************************************)
(* Claims about POST /api/verify.                                          *)
(***************************************************************************)
VerifyReqs(rs) == { i \in 1..Len(rs) : rs[i].kind = "verify" }

HasToken(r) == r.body.json /\ "token" \in DOMAIN r.body.body /\ r.body.body.token # <<>>

\* the token is rejected before any lookup: verifyAccessToken throws, or its
\* payload carries no subscription id
TokenFails(token) ==
    LET v == verifyAccessToken(token, secret)
    IN  \/ ~v.ok
        \/ Field(v.value, KeyBookingId).t # "str"

TokenSubId(token) == Field(verifyAccessToken(token, secret).value, KeyBookingId).v

\* the first matching rule, in the order of the claim
FirstMatchingRule(token, store, t) ==
    CASE TokenFails(token) -> "invalid_token"
      [] TokenSubId(token) \notin DOMAIN store -> "not_found"
      [] store[TokenSubId(token)].status # "active" -> "subscription_inactive"
      [] store[TokenSubId(token)].currentPeriodEnd <= t -> "expired"
      [] OTHER -> "valid"

\* what a verify request has decided: the reason of its response, "valid", or
\* nothing yet
Outcome(r) ==
    CASE r.pc = "details" -> "valid"
      [] r.pc = "done" /\ r.resp.body.valid -> "valid"
      [] r.pc = "done" -> r.resp.body.reason
      [] OTHER -> "pending"

\* C2: every decision POST /api/verify takes on a token is the outcome of the
\* first matching rule (invalid_token, not_found, subscription_inactive,
\* expired with equality counting as expired, valid) on the store and the clock
\* of the step that takes it.
C2_DecisionOrder ==
    [][ \A i \in VerifyReqs(reqs') :
          LET old == IF i <= Len(reqs) THEN Outcome(reqs[i]) ELSE "pending"
              new == Outcome(reqs'[i])
          IN  (HasToken(reqs'[i]) /\ old = "pending" /\ new # "pending") =>
                 new = FirstMatchingRule(reqs'[i].body.body.token, subs, now) ]_vars

\* a verification answered subscription_inactive for a subscription that was
\* cancelled after its period had ended
C2_Witness ==
    \E i \in VerifyReqs(reqs) :
       /\ Outcome(reqs[i]) = "subscription_inactive"
       /\ LET id == TokenSubId(reqs[i].body.body.token)
          IN  subs[id].cancelledAt >= subs[id].currentPeriodEnd

\* request c is a cancel request for subscription id answered with success
CancelSucceeded(c, id) ==
    /\ reqs[c].kind = "cancel" /\ reqs[c].pc = "done"
    /\ ~reqs[c].resp.thrown /\ reqs[c].resp.status = 200
    /\ reqs[c].body.body.subscriptionId = id

\* verifications of a subscription's token that started after a successful
\* cancel of that subscription answer subscription_inactive
VoidAfterCancel ==
    \A v \in VerifyReqs(reqs) : \A id \in DOMAIN subs :
       (/\ reqs[v].pc = "done"
        /\ HasToken(reqs[v])
        /\ reqs[v].body.body.token = subs[id].accessToken
        /\ \E c \in reqs[v].after : CancelSucceeded(c, id))
       => reqs[v].resp = Respond(200, [valid |-> FALSE, reason |-> "subscription_inactive",
                                       detail |-> "cancelled"])

\* C5: once a cancel request for a subscription has completed successfully,
\* every verification of that subscription's token that starts afterwards is
\* answered subscription_inactive; and a verification goes on to valid only
\* from a lookup that finds the subscription active with its period end after
\* the time of the lookup.
C5_TokenVoid ==
    [][ /\ VoidAfterCancel'
        /\ \A i \in VerifyReqs(reqs') :
             LET old == IF i <= Len(reqs) THEN Outcome(reqs[i]) ELSE "pending"
             IN  (old = "pending" /\ Outcome(reqs'[i]) = "valid") =>
                    /\ reqs[i].subscriptionId \in DOMAIN subs
                    /\ subs[reqs[i].subscriptionId].status = "active"
                    /\ subs[reqs[i].subscriptionId].currentPeriodEnd > now ]_vars

C5_Witness ==
    \E v \in VerifyReqs(reqs) : \E id \in DOMAIN subs :
       /\ reqs[v].pc = "done"
       /\ HasToken(reqs[v])
       /\ reqs[v].body.body.token = subs[id].accessToken
       /\ \E c \in reqs[v].after : CancelSucceeded(c, id)
       /\ reqs[v].resp.body.reason = "subscription_inactive"

\* the request failed a token check: no token, or verifyAccessToken threw
FailsTokenCheck(r) ==
    /\ r.kind = "verify" /\ r.pc = "done" /\ r.body.json
    /\ ~HasToken(r) \/ ~verifyAccessToken(r.body.body.token, secret).ok

C7_FailFast ==
    secret = NoSecret =>
       /\ reqs = <<>>
       /\ \A i \in 1..Len(reqs) : ~(reqs[i].resp.thrown /\ reqs[i].resp.error = "MissingSecret")

\* the failures of issue and verify
TokenFailures == { "MalformedToken", "InvalidSignature", "RangeError", "SyntaxError",
                   "MissingSecret" }

RoundDown(num, den) == num \div den

\* Math.round(num / den) for den > 0: the nearest integer, a half rounds up
Round(num, den) == (2 * num + den) \div (2 * den)

\* Math.ceil(num / den) for den > 0
Ceil(num, den) == -((-num) \div den)

PricingModels == { "hourly", "daily", "monthly" }

\* mockRatePerUnit, in cents
mockRatePerUnit == [hourly |-> 350, daily |-> 2000, monthly |-> 12000]

\* (mutant) the monthly rate is charged for every started period of 30 days
calcSubtotalCentsProrated(rateCents, pricingModel, startAt, endAt) ==
    LET quarters == endAt - startAt
    IN  CASE pricingModel = "hourly" -> Round(rateCents * quarters, 4)
          [] pricingModel = "daily" -> Round(rateCents * 24 * Ceil(quarters, 96), 1)
          [] pricingModel = "monthly" -> Round(rateCents * Ceil(quarters, 96 * 30), 1)

\* calcSubtotalCents(ratePerHour, pricingModel, startAt, endAt), the rate in cents
calcSubtotalCents(rateCents, pricingModel, startAt, endAt) ==
    LET quarters == endAt - startAt
    IN  CASE pricingModel = "hourly" -> Round(rateCents * quarters, 4)
          [] pricingModel = "daily" -> Round(rateCents * 24 * Ceil(quarters, 96), 1)
          [] pricingModel = "monthly" -> Round(rateCents, 1)

\* the fee, the taxes and the total for a subtotal
PriceFromSubtotal(subtotal) ==
    LET serviceFee == Round(subtotal * 12, 100)
        taxes == Round((subtotal + serviceFee) * 13, 100)
    IN  [subtotal |-> subtotal, serviceFee |-> serviceFee, taxes |-> taxes,
         total |-> subtotal + serviceFee + taxes, currency |-> "CAD"]

\* MockBillingProvider.calculatePrice(_listingId, pricingModel, startAt, endAt)
calculatePrice(pricingModel, startAt, endAt) ==
    PriceFromSubtotal(
        calcSubtotalCents(mockRatePerUnit[pricingModel], pricingModel, startAt, endAt))

PriceStarts == { 0, 3, 100 }

\* rates in cents handed to calcSubtotalCents: 3.50, 20, 100 and 120 dollars
\* (rate * hours * 100 is exact in doubles for these)
SubtotalRates == { 350, 2000, 10000, 12000 }

\* the largest rate, in cents, of the small rates shown in the summary
MaxRateCents == 1000

\* monthly rates, in cents, of the listings shown in the checkout summary
SummaryRates == 1..MaxRateCents \cup { 10000, 12000, 15000 }

PriceInit ==
    /\ bookings = <<>>
    /\ pages = <<>>
    /\ reviews = <<>>
    /\ \E m \in PricingModels, s \in PriceStarts, e \in 0..MaxQuarters :
         \/ price = [phase |-> "args", pricingModel |-> m, startAt |-> s, endAt |-> e]
         \/ \E rate \in SubtotalRates :
               price = [phase |-> "rateargs", rate |-> rate, pricingModel |-> m,
                        startAt |-> s, endAt |-> e]
         \/ \E rate \in SummaryRates : price = [phase |-> "rate", monthlyRate |-> rate]
    /\ tk = [phase |-> "off"]
    /\ secret = SecretKey
    /\ now = 0
    /\ subs = NoSubs
    /\ reqs = <<>>

PriceCalculate ==
    /\ price.phase = "args"
    /\ price' = [phase |-> "done", pricingModel |-> price.pricingModel,
                 startAt |-> price.startAt, endAt |-> price.endAt,
                 result |-> calculatePrice(price.pricingModel, price.startAt, price.endAt)]
    /\ UNCHANGED <<bookings, pages, reviews, tk, secret, now, subs, reqs>>

\* a call of calcSubtotalCents with a rate of the caller's
PriceSubtotal ==
    /\ price.phase = "rateargs"
    /\ price' = [phase |-> "subtotal", rate |-> price.rate,
                 pricingModel |-> price.pricingModel,
                 startAt |-> price.startAt, endAt |-> price.endAt,
                 subtotal |-> calcSubtotalCents(price.rate, price.pricingModel,
                                                price.startAt, price.endAt)]
    /\ UNCHANGED <<bookings, pages, reviews, tk, secret, now, subs, reqs>>

(***************************************************************************)
(* The checkout summary (CheckoutForm).  Amounts are dollars in the code   *)
(* and cents here.  toFixed(2) rounds the exact value of the double to the *)
(* nearest cent.  For a rate of whole cents, rate * 0.12 is never halfway  *)
(* between two cents; (rate + fee) * 0.13 is halfway exactly when rate +   *)
(* fee is 50 cents more than a whole dollar, and then the double product   *)
(* lies just below or just above the half, which decides the rounding.     *)
(***************************************************************************)
\* the amounts x of at most 1200 cents, 50 cents more than a whole dollar, for
\* which the binary64 product (x / 100) * 0.13 is smaller than its decimal
\* value: 0.585 for 4.50, 0.845 for 6.50, 1.105 for 8.50
ProductBelowHalf == { 450, 650, 850 }

\* parseFloat(v.toFixed(2)) in cents, for the double v standing for num / den
\* cents; below tells whether v lies below num / den
toFixed(num, den, below) ==
    IF 2 * (num % den) = den /\ below THEN num \div den ELSE Round(num, den)

\* calcPrices(monthlyRate), in cents
calcPrices(monthlyRate) ==
    LET spotRental == monthlyRate
        platformFee == toFixed(spotRental * 12, 100, FALSE)
        hst == toFixed((spotRental + platformFee) * 13, 100,
                       (spotRental + platformFee) \in ProductBelowHalf)
        total == toFixed(spotRental + platformFee + hst, 1, FALSE)
    IN  [spotRental |-> spotRental, platformFee |-> platformFee, hst |-> hst,
         total |-> total]

\* the summary is rendered for a listing
PriceSummary ==
    /\ price.phase = "rate"
    /\ price' = [phase |-> "summary", monthlyRate |-> price.monthlyRate,
                 shown |-> calcPrices(price.monthlyRate)]
    /\ UNCHANGED <<bookings, pages, reviews, tk, secret, now, subs, reqs>>

PriceNext == PriceCalculate \/ PriceSubtotal \/ PriceSummary

SpecPrice == PriceInit /\ [][PriceNext]_vars

\* C9 as stated: whenever a breakdown is returned, subtotal, serviceFee, taxes
\* and total are non-negative and total = subtotal + serviceFee + taxes.
C9_NonNegativeSum ==
    price.phase = "done" =>
        /\ price.result.subtotal >= 0 /\ price.result.serviceFee >= 0
        /\ price.result.taxes >= 0 /\ price.result.total >= 0
        /\ price.result.total =
              price.result.subtotal + price.result.serviceFee + price.result.taxes

Abs(x) == IF x < 0 THEN -x ELSE x

\* C10: serviceFee is subtotal * 0.12 rounded to the nearest cent, taxes is
\* (subtotal + serviceFee) * 0.13 rounded to the nearest cent, each computed
\* from the rounded amounts before it; a subtotal of 10000 gives 1200, 1456
\* and 12656.
C10_CascadingRounding ==
    /\ price.phase = "done" =>
          LET r == price.result
          IN  /\ 2 * Abs(100 * r.serviceFee - 12 * r.subtotal) <= 100
              /\ 2 * Abs(100 * r.taxes - 13 * (r.subtotal + r.serviceFee)) <= 100
              /\ r.total = r.subtotal + r.serviceFee + r.taxes
    /\ PriceFromSubtotal(10000) =
          [subtotal |-> 10000, serviceFee |-> 1200, taxes |-> 1456, total |-> 12656,
           currency |-> "CAD"]

\* a breakdown whose fee and taxes are both rounded up
C10_Witness ==
    /\ price.phase = "done"
    /\ 100 * price.result.serviceFee > 12 * price.result.subtotal
    /\ 100 * price.result.taxes > 13 * (price.result.subtotal + price.result.serviceFee)
    /\ price.result.subtotal > 0

\* quarters of an hour in a day
DayQuarters == 96

\* C11: under the monthly model the subtotal of a rate is the same for every
\* interval, round(rate * 100) cents, and so are the fee, the taxes and the
\* total; a rate of 100 gives 10000 cents for 1 day and for 40 days.
C11_MonthlyIgnoresInterval ==
    /\ (price.phase = "subtotal" /\ price.pricingModel = "monthly") =>
          /\ price.subtotal = Round(price.rate, 1)
          /\ \A s \in PriceStarts, e \in 0..MaxQuarters :
                calcSubtotalCents(price.rate, "monthly", s, e) = price.subtotal
    /\ (price.phase = "done" /\ price.pricingModel = "monthly") =>
          \A s \in PriceStarts, e \in 0..MaxQuarters :
             calculatePrice("monthly", s, e) = price.result
    /\ calcSubtotalCents(10000, "monthly", 0, DayQuarters) = 10000
    /\ calcSubtotalCents(10000, "monthly", 0, 40 * DayQuarters) = 10000

\* a monthly subtotal of 10000 cents computed for an interval of one day
C11_Witness ==
    /\ price.phase = "subtotal" /\ price.pricingModel = "monthly"
    /\ price.rate = 10000 /\ price.endAt - price.startAt = DayQuarters
    /\ price.subtotal = 10000

\* C12 as stated: under the daily model the subtotal is the daily rate times
\* the number of started days, rate * 100 * ceil(hours / 24); a rate of 20
\* over 25 hours gives 4000 cents.
C12_DailyStartedDays ==
    /\ (/\ price.phase = "subtotal" /\ price.pricingModel = "daily"
        /\ price.endAt > price.startAt) =>
          price.subtotal = price.rate * Ceil(price.endAt - price.startAt, DayQuarters)
    /\ (/\ price.phase = "subtotal" /\ price.pricingModel = "daily"
        /\ price.rate = 2000 /\ price.endAt - price.startAt = 25 * 4) =>
          price.subtotal = 4000

\* C13 as stated: no breakdown is returned for an empty or a reversed interval.
C13_InvalidInterval ==
    /\ price.phase = "done" => price.endAt > price.startAt
    /\ price.phase = "subtotal" => price.endAt > price.startAt

\* C14 as stated: for every monthly rate the platform fee, the tax and the total
\* of the checkout summary equal the serviceFee, the taxes and the total the
\* pricing engine computes for that rate under the monthly model.
C14_SummaryAgrees ==
    price.phase = "summary" =>
       LET engine == PriceFromSubtotal(
                        calcSubtotalCents(price.monthlyRate, "monthly", 0, 0))
       IN  /\ price.shown.platformFee = engine.serviceFee
           /\ price.shown.hst = engine.taxes
           /\ price.shown.total = engine.total

(***************************************************************************)
(* Claims about POST /api/checkout/mock.                                   *)
(***************************************************************************)
\* the checkout requests that have minted a token (step 5 e)
Minted(rs) == { i \in 1..Len(rs) : rs[i].kind = "checkout" /\ "doc" \in DOMAIN rs[i] }

\* request i of rs is a checkout answered with the status
CheckoutAnswered(rs, i, status) ==
    /\ rs[i].kind = "checkout" /\ rs[i].pc = "done"
    /\ ~rs[i].resp.thrown /\ rs[i].resp.status = status

\* C15: a token is minted at most once for a subscription id, never for the id
\* of a document that exists, and the accessToken of a stored document is
\* never replaced, whatever checkout, cancel and verify requests interleave.
C15_OneTokenPerSubscription ==
    [][ /\ \A i, j \in Minted(reqs') :
             reqs'[i].subscriptionId = reqs'[j].subscriptionId => i = j
        /\ \A i \in Minted(reqs') \ Minted(reqs) :
             reqs'[i].subscriptionId \notin DOMAIN subs
        /\ \A id \in DOMAIN subs :
             id \in DOMAIN subs' /\ subs'[id].accessToken = subs[id].accessToken ]_vars

\* a subscription created by a checkout was cancelled later and still holds
\* the token the checkout minted
C15_Witness ==
    \E i \in Minted(reqs) :
       /\ CheckoutAnswered(reqs, i, 201)
       /\ subs[reqs[i].subscriptionId].status = "cancelled"
       /\ subs[reqs[i].subscriptionId].accessToken = reqs[i].doc.accessToken

\* C16: the step that answers a checkout with 201 adds exactly one document
\* to the store, under a new id; the document is active, names the caller as
\* driver, ends 30 days after it starts, and its accessToken verifies and
\* decodes to the document's id and the caller's uid.
C16_CheckoutCreates ==
    [][ \A i \in 1..Len(reqs') :
          (/\ CheckoutAnswered(reqs', i, 201)
           /\ ~(i <= Len(reqs) /\ reqs[i].pc = "done")) =>
             LET id == reqs'[i].resp.body.subscriptionId
                 v == verifyAccessToken(subs'[id].accessToken, secret)
             IN  /\ id \notin DOMAIN subs
                 /\ DOMAIN subs' = DOMAIN subs \cup {id}
                 /\ \A o \in DOMAIN subs : subs'[o] = subs[o]
                 /\ subs'[id].status = "active"
                 /\ subs'[id].driverId = reqs'[i].auth
                 /\ subs'[id].currentPeriodEnd = subs'[id].currentPeriodStart + PeriodDays
                 /\ v.ok
                 /\ Field(v.value, KeyBookingId) = StrVal(id)
                 /\ Field(v.value, KeyUserId) = StrVal(reqs'[i].auth) ]_vars

\* a checkout of Driver2 was answered 201 while Driver1 holds a subscription
C16_Witness ==
    \E i \in 1..Len(reqs) :
       /\ CheckoutAnswered(reqs, i, 201)
       /\ reqs[i].auth = Driver2
       /\ reqs[i].resp.body.subscriptionId \in DOMAIN subs
       /\ Cardinality(DOMAIN subs) = 2

\* C17 as stated: a checkout request with outcome 'failure' is answered 402
\* with success = false and gets no subscription document written, whatever
\* subscriptions the driver holds.
C17_FailureIs402 ==
    \A i \in 1..Len(reqs) :
       (/\ reqs[i].kind = "checkout" /\ reqs[i].pc = "done"
        /\ reqs[i].auth \in Drivers /\ reqs[i].body.json
        /\ reqs[i].body.body.listingId # <<>>
        /\ reqs[i].body.body.outcome = "failure") =>
          /\ reqs[i].resp = Respond(402, [success |-> FALSE,
                                          error |-> "Payment failed (simulated)"])
          /\ i \notin Minted(reqs)

\* C18 as stated: checkout calls of one driver that carry the same
\* idempotencyKey and succeed all return the same subscription id, and at
\* most one of them has a subscription document written.
C18_IdempotencyKey ==
    \A i, j \in 1..Len(reqs) :
       (/\ reqs[i].kind = "checkout" /\ reqs[j].kind = "checkout"
        /\ reqs[i].auth \in Drivers /\ reqs[i].auth = reqs[j].auth
        /\ reqs[i].body.json /\ reqs[j].body.json
        /\ reqs[i].body.body.idempotencyKey = reqs[j].body.body.idempotencyKey) =>
          /\ (i \in Minted(reqs) /\ j \in Minted(reqs)) => i = j
          /\ (/\ reqs[i].pc = "done" /\ reqs[j].pc = "done"
              /\ ~reqs[i].resp.thrown /\ ~reqs[j].resp.thrown
              /\ reqs[i].resp.body.success /\ reqs[j].resp.body.success) =>
                reqs[i].resp.body.subscriptionId = reqs[j].resp.body.subscriptionId

(***************************************************************************)
(* POST /api/verify under load: calls arriving within one minute, none of  *)
(* which sees the clock or the store change.  tk holds the token whose     *)
(* calls are counted and the number of calls for it that were answered     *)
(* with a decision; answered requests leave reqs once none is in flight.   *)
(***************************************************************************)
\* the number of answered calls up to which the window is followed
MaxCalls == 62

\* 60 calls/minute per token
RateLimit == 60

WindowInit ==
    /\ bookings = <<>>
    /\ pages = <<>>
    /\ reviews = <<>>
    /\ secret = SecretKey
    /\ now = 0
    /\ subs \in {NoSubs, OneSub}
    /\ reqs = <<>>
    /\ \E t \in { subs[id].accessToken : id \in DOMAIN subs } \cup { StrayToken.value } :
         tk = [phase |-> "window", token |-> t, processed |-> 0]
    /\ price = [phase |-> "off"]

\* the responses have been sent; those to calls for the token are counted
WindowDeliver ==
    /\ reqs # <<>> /\ InFlight = {}
    /\ LET counted == { i \in 1..Len(reqs) :
                          /\ HasToken(reqs[i]) /\ reqs[i].body.body.token = tk.token
                          /\ ~reqs[i].resp.thrown
                          /\ "valid" \in DOMAIN reqs[i].resp.body }
       IN  /\ tk.processed + Cardinality(counted) <= MaxCalls
           /\ tk' = [tk EXCEPT !.processed = @ + Cardinality(counted)]
    /\ reqs' = <<>>
    /\ UNCHANGED <<bookings, pages, reviews, secret, now, subs, price>>

WindowNext ==
    \/ VerifyBegin
    \/ \E i \in InFlight : VerifyLookup(i)
    \/ \E i \in InFlight : VerifyDetails(i)
    \/ WindowDeliver

SpecWindow == WindowInit /\ [][WindowNext]_vars

\* C19 as stated: within one minute at most 60 calls for the same token are
\* answered with a verification decision.
C19_RateLimited == tk.phase = "window" => tk.processed <= RateLimit

(***************************************************************************)
(* The rate page /passes/[subscriptionId]/rate.  Every open page is a      *)
(* component instance of its own: its state (pageState, selectedScore,     *)
(* submitting, submitError) and the position of its loadData or            *)
(* handleSubmit call (pc).  Reads and writes reach the store one at a      *)
(* time, in any order across pages.                                        *)
(***************************************************************************)
\* the number of rate pages open at once
MaxPages == 2

\* the star ratings a driver selects
Scores == { 1, 5 }

\* the subscriptions whose rate page is opened: an existing one and a missing one
RatedSubIds == { SubId(0), <<"s", "9">> }

ReviewInit ==
    /\ bookings = <<>>
    /\ secret = SecretKey
    /\ now = 0
    /\ subs = OneSub
    /\ reqs = <<>>
    /\ tk = [phase |-> "off"]
    /\ price = [phase |-> "off"]
    /\ pages = <<>>
    /\ reviews = <<>>

\* the page is opened by a signed-in driver; the effect starts loadData, which
\* requests the subscription
PageOpen ==
    /\ Len(pages) < MaxPages
    /\ \E user \in Drivers, subscriptionId \in RatedSubIds :
         pages' = Append(pages,
                    [user |-> user, subscriptionId |-> subscriptionId,
                     status |-> "loading", pc |-> "getSubscription",
                     selectedScore |-> 0, submitting |-> FALSE, submitError |-> "null"])
    /\ UNCHANGED <<bookings, tk, secret, now, subs, reqs, price, reviews>>

\* loadData steps 1 and 2: the subscription as read, the ownership check; then
\* the query for an existing review is sent
LoadSubscription(p) ==
    /\ pages[p].pc = "getSubscription"
    /\ LET g == pages[p]
       IN  pages' = [pages EXCEPT ![p] =
              IF g.subscriptionId \notin DOMAIN subs
              THEN [g EXCEPT !.status = "not_found", !.pc = "idle"]
              ELSE IF subs[g.subscriptionId].driverId # g.user
              THEN [g EXCEPT !.status = "unauthorized", !.pc = "idle"]
              ELSE [user |-> g.user, subscriptionId |-> g.subscriptionId,
                    status |-> g.status, pc |-> "getReviews",
                    selectedScore |-> g.selectedScore, submitting |-> g.submitting,
                    submitError |-> g.submitError,
                    subscription |-> subs[g.subscriptionId]]]
    /\ UNCHANGED <<bookings, tk, secret, now, subs, reqs, price, reviews>>

\* loadData step 3: the result of the query for a review of the subscription
LoadReviews(p) ==
    /\ pages[p].pc = "getReviews"
    /\ LET g == pages[p]
           empty == \A i \in 1..Len(reviews) : reviews[i].subscriptionId # g.subscriptionId
       IN  pages' = [pages EXCEPT ![p] =
              IF ~empty THEN [g EXCEPT !.status = "already_rated", !.pc = "idle"]
              ELSE [g EXCEPT !.pc = "getListing"]]
    /\ UNCHANGED <<bookings, tk, secret, now, subs, reqs, price, reviews>>

\* loadData step 4: the listing address; the page is ready
LoadListing(p) ==
    /\ pages[p].pc = "getListing"
    /\ pages' = [pages EXCEPT ![p] = [@ EXCEPT !.status = "ready", !.pc = "idle"]]
    /\ UNCHANGED <<bookings, tk, secret, now, subs, reqs, price, reviews>>

\* StarRating onChange = setSelectedScore
SelectScore(p) ==
    /\ pages[p].status = "ready" /\ pages[p].pc = "idle"
    /\ \E score \in Scores :
         /\ score # pages[p].selectedScore
         /\ pages' = [pages EXCEPT ![p] = [@ EXCEPT !.selectedScore = score]]
    /\ UNCHANGED <<bookings, tk, secret, now, subs, reqs, price, reviews>>

\* the review handleSubmit hands to addDoc
ReviewDoc(g) ==
    [subscriptionId |-> g.subscriptionId,
     listingId |-> g.subscription.listingId,
     hostId |-> g.subscription.hostId,
     authorId |-> g.user,
     overallRating |-> g.selectedScore,
     body |-> "null"]

\* handleSubmit up to the call of addDoc (the button is disabled while submitting)
HandleSubmit(p) ==
    /\ pages[p].pc = "idle" /\ ~pages[p].submitting
    /\ pages[p].status = "ready"
    /\ LET g == pages[p]
       IN  pages' = [pages EXCEPT ![p] =
              IF g.selectedScore = 0
              THEN [g EXCEPT !.submitError = "Please select a star rating before submitting."]
              ELSE [g EXCEPT !.submitting = TRUE, !.submitError = "null", !.pc = "addDoc"]]
    /\ UNCHANGED <<bookings, tk, secret, now, subs, reqs, price, reviews>>

\* addDoc adds the review; the page shows success
AddReview(p) ==
    /\ pages[p].pc = "addDoc"
    /\ reviews' = Append(reviews, ReviewDoc(pages[p]))
    /\ pages' = [pages EXCEPT ![p] =
                   [@ EXCEPT !.status = "success", !.submitting = FALSE, !.pc = "idle"]]
    /\ UNCHANGED <<bookings, tk, secret, now, subs, reqs, price>>

ReviewNext ==
    \/ PageOpen
    \/ \E p \in 1..Len(pages) : LoadSubscription(p)
    \/ \E p \in 1..Len(pages) : LoadReviews(p)
    \/ \E p \in 1..Len(pages) : LoadListing(p)
    \/ \E p \in 1..Len(pages) : SelectScore(p)
    \/ \E p \in 1..Len(pages) : HandleSubmit(p)
    \/ \E p \in 1..Len(pages) : AddReview(p)

SpecReview == ReviewInit /\ [][ReviewNext]_vars

\* C20 as stated: at most one review document exists for a subscriptionId.
C20_OneReview ==
    \A i, j \in 1..Len(reviews) :
       reviews[i].subscriptionId = reviews[j].subscriptionId => i = j

(***************************************************************************)
(* Claims about POST /api/checkout/cancel.                                 *)
(***************************************************************************)
\* request i is answered in this step
Answered(i) == reqs'[i].pc = "done" /\ ~(i <= Len(reqs) /\ reqs[i].pc = "done")

\* the cancel request r names a subscription
NamesSubscription(r) ==
    r.kind = "cancel" /\ r.body.json /\ r.body.body.subscriptionId # <<>>

\* C21 as stated: a cancel request that is not authenticated is answered 401,
\* one for an unknown id 404, one by a driver who does not own the
\* subscription 403, and the step that answers it leaves every subscription
\* document as it was.
C21_OnlyOwnerCancels ==
    [][ \A i \in 1..Len(reqs') :
          LET r == reqs'[i]
              id == r.body.body.subscriptionId
              status == CASE r.auth \notin Drivers -> 401
                          [] ~NamesSubscription(r) -> 0
                          [] id \notin DOMAIN subs -> 404
                          [] subs[id].driverId # r.auth -> 403
                          [] OTHER -> 0
          IN  (r.kind = "cancel" /\ Answered(i) /\ status # 0) =>
                 /\ ~r.resp.thrown
                 /\ r.resp.status = status
                 /\ ~r.resp.body.success
                 /\ subs' = subs ]_vars

(***************************************************************************)
(* POST /api/verify repeated: verify requests only, on a store and at an   *)
(* instant that nothing else changes.                                      *)
(***************************************************************************)
\* the store after the earlier checkout of Driver1 was cancelled at time 0
OneCancelled == [ x \in {SubId(0)} |-> CancelledDoc(OneSub[SubId(0)], 0) ]

RepeatInit ==
    /\ bookings = <<>>
    /\ pages = <<>>
    /\ reviews = <<>>
    /\ secret = SecretKey
    /\ now \in {0, PeriodDays}
    /\ subs \in {NoSubs, OneSub, OneCancelled}
    /\ reqs = <<>>
    /\ tk = [phase |-> "off"]
    /\ price = [phase |-> "off"]

RepeatNext ==
    \/ VerifyBegin
    \/ \E i \in InFlight : VerifyLookup(i)
    \/ \E i \in InFlight : VerifyDetails(i)

SpecRepeat == RepeatInit /\ [][RepeatNext]_vars

RotatedKey == 11

EnvValues == Secrets \cup { RotatedKey }

\* process.env.BILLING_MOCK_SECRET gets another value after a token was issued
EnvChange ==
    /\ tk.phase = "token"
    /\ \E v \in EnvValues : v # secret /\ secret' = v
    /\ UNCHANGED <<bookings, pages, reviews, tk, now, subs, reqs, price>>

EnvNext == TokIssue \/ EnvChange \/ TokVerify

SpecEnv == TokInit /\ [][EnvNext]_vars

\* C23 as stated: a token issued earlier in the process verifies later,
\* whatever happened to the configuration in between.
C23_SecretFixed ==
    (tk.phase = "verified" /\ tk.how = "issued") =>
       /\ tk.result.ok
       /\ Field(tk.result.value, KeyBookingId) = StrVal(tk.bookingId)
       /\ Field(tk.result.value, KeyUserId) = StrVal(tk.userId)

\* C24 as stated: there is at most one subscription with status 'active' for a
\* driver and a listing.
C24_OneActivePerDriverListing ==
    \A a, b \in DOMAIN subs :
       (/\ subs[a].status = "active" /\ subs[b].status = "active"
        /\ subs[a].driverId = subs[b].driverId
        /\ subs[a].listingId = subs[b].listingId) => a = b

(***************************************************************************)
(* POST /api/verify when reads of the store fail: get() rejects (the       *)
(* store is unreachable, the request times out, permission is denied).     *)
(***************************************************************************)
\* step 3 when the read of the subscription rejects: the outer catch answers
VerifyLookupFails(i) ==
    /\ reqs[i].kind = "verify" /\ reqs[i].pc = "lookup"
    /\ reqs' = [reqs EXCEPT ![i] = Done(reqs[i], Respond(200, InvalidToken))]
    /\ UNCHANGED <<bookings, pages, reviews, tk, secret, now, subs, price>>

\* steps 6 to 8 when the read of the driver or of the listing rejects: the
\* inner catch keeps the default
VerifyDetailsFails(i) ==
    /\ reqs[i].kind = "verify" /\ reqs[i].pc = "details"
    /\ \E driverFails, listingFails \in BOOLEAN :
         LET r == reqs[i]
             sub == r.subscription
             driverName == IF ~driverFails /\ sub.driverId \in DOMAIN users
                           THEN users[sub.driverId].displayName ELSE "Unknown Driver"
             listingAddress ==
                 IF ~listingFails /\ sub.listingId \in DOMAIN listings
                 THEN <<listings[sub.listingId].address, listings[sub.listingId].city>>
                 ELSE <<"Unknown Address">>
         IN  /\ driverFails \/ listingFails
             /\ reqs' = [reqs EXCEPT ![i] =
                   Done(r, Respond(200, [valid |-> TRUE, driverName |-> driverName,
                                         listingAddress |-> listingAddress,
                                         vehiclePlate |-> sub.vehiclePlate,
                                         expiresAt |-> sub.currentPeriodEnd]))]
    /\ UNCHANGED <<bookings, pages, reviews, tk, secret, now, subs, price>>

FaultNext ==
    \/ VerifyBegin
    \/ \E i \in InFlight : VerifyLookup(i)
    \/ \E i \in InFlight : VerifyLookupFails(i)
    \/ \E i \in InFlight : VerifyDetails(i)
    \/ \E i \in InFlight : VerifyDetailsFails(i)

SpecFault == RepeatInit /\ [][FaultNext]_vars

\* C25 as stated: a request whose token verifies and names a subscription id
\* is never answered invalid_token.
C25_InvalidTokenMeansBadToken ==
    \A i \in VerifyReqs(reqs) :
       (/\ reqs[i].pc = "done" /\ HasToken(reqs[i])
        /\ ~TokenFails(reqs[i].body.body.token)) =>
          \/ reqs[i].resp.body.valid
          \/ reqs[i].resp.body.reason \in {"not_found", "subscription_inactive", "expired"}

\* C26 as stated: whenever POST /api/verify finds a token valid, the userId in
\* the token is the driverId of the subscription that was looked up and the
\* token is the accessToken stored in that subscription.
C26_ValidBoundToDriver ==
    \A i \in VerifyReqs(reqs) :
       Outcome(reqs[i]) = "valid" =>
          LET token == reqs[i].body.body.token
              v == verifyAccessToken(token, secret)
          IN  /\ Field(v.value, KeyUserId) = StrVal(reqs[i].subscription.driverId)
              /\ token = reqs[i].subscription.accessToken

(***************************************************************************)
(* verifyQRToken(token, {checkIn}).  Calls are kept in reqs like the       *)
(* requests of the route handlers; a call's result is its response.        *)
(***************************************************************************)
Booking1 == <<"b", "1">>

\* the token of booking b for the user
BookingToken(b, user) == signAccessToken(b, user, 0, secret).value

\* a booking document
BookingDoc(b, status) ==
    [listingId |-> Listing1, hostId |-> listings[Listing1].hostId, driverId |-> Driver1,
     status |-> status, endAt |-> PeriodDays, accessToken |-> BookingToken(b, Driver1),
     checkedIn |-> FALSE, checkedInAt |-> 0]

\* the result of a call
QrResult(status, reason) == [thrown |-> FALSE, status |-> status, reason |-> reason]

\* the tokens presented: the booking's, an altered one, one of a booking that
\* does not exist, one signed over null
QrTokens ==
    { BookingToken(Booking1, Driver1), AlterLast(BookingToken(Booking1, Driver1)),
      BookingToken(<<"b", "9">>, Driver1), SignedPlaintext(JsonNull) }

CheckInInit ==
    /\ pages = <<>>
    /\ reviews = <<>>
    /\ secret = SecretKey
    /\ now = 0
    /\ subs = NoSubs
    /\ reqs = <<>>
    /\ tk = [phase |-> "off"]
    /\ price = [phase |-> "off"]
    /\ \E status \in {"confirmed", "cancelled"} :
         bookings = [ b \in {Booking1} |-> BookingDoc(b, status) ]

\* step 1: the signature; then the booking is requested
QrBegin ==
    /\ CanBegin
    /\ \E token \in QrTokens, checkIn \in BOOLEAN :
         LET r == NewReq("qr", NoAuth, [token |-> token, checkIn |-> checkIn])
             decoded == verifyAccessToken(token, secret)
         IN  reqs' = Append(reqs,
                CASE ~decoded.ok -> Done(r, QrResult("invalid", "signature_mismatch"))
                  [] decoded.value.kind = "null" -> Done(r, Unhandled("TypeError"))
                  [] OTHER ->
                       [kind |-> "qr", pc |-> "get", auth |-> NoAuth, body |-> r.body,
                        after |-> r.after, resp |-> NoResp,
                        bookingId |-> Field(decoded.value, KeyBookingId).v])
    /\ UNCHANGED <<bookings, pages, reviews, tk, secret, now, subs, price>>

\* steps 2 and 3: the booking as read, its status, its end, its check-in; then
\* with checkIn the update is sent
QrGet(i) ==
    /\ reqs[i].kind = "qr" /\ reqs[i].pc = "get"
    /\ LET r == reqs[i]
           b == r.bookingId
       IN  reqs' = [reqs EXCEPT ![i] =
              CASE b \notin DOMAIN bookings ->
                     Done(r, QrResult("invalid", "booking_not_found"))
                [] bookings[b].status = "cancelled" ->
                     Done(r, QrResult("invalid", "booking_cancelled"))
                [] bookings[b].endAt < now ->
                     Done(r, QrResult("invalid", "booking_expired"))
                [] bookings[b].checkedIn ->
                     Done(r, QrResult("already_checked_in", "none"))
                [] r.body.checkIn -> [r EXCEPT !.pc = "update"]
                [] OTHER -> Done(r, QrResult("valid", "none"))]
    /\ UNCHANGED <<bookings, pages, reviews, tk, secret, now, subs, price>>

\* step 4: the update is applied, the result is valid
QrUpdate(i) ==
    /\ reqs[i].kind = "qr" /\ reqs[i].pc = "update"
    /\ bookings' = [bookings EXCEPT ![reqs[i].bookingId] =
                      [@ EXCEPT !.checkedIn = TRUE, !.checkedInAt = now, !.status = "active"]]
    /\ reqs' = [reqs EXCEPT ![i] =
                  [kind |-> "qr", pc |-> "done", auth |-> NoAuth, body |-> reqs[i].body,
                   after |-> reqs[i].after, resp |-> QrResult("valid", "none"),
                   bookingId |-> reqs[i].bookingId, wroteAt |-> now]]
    /\ UNCHANGED <<pages, reviews, tk, secret, now, subs, price>>

CheckInNext ==
    \/ Tick
    \/ QrBegin
    \/ \E i \in InFlight : QrGet(i)
    \/ \E i \in InFlight : QrUpdate(i)

SpecCheckIn == CheckInInit /\ [][CheckInNext]_vars

\* the calls with checkIn that returned valid for booking b
CheckedIn(b) ==
    { i \in 1..Len(reqs) :
        /\ reqs[i].kind = "qr" /\ reqs[i].pc = "done" /\ "wroteAt" \in DOMAIN reqs[i]
        /\ reqs[i].bookingId = b }

\* C27 as stated: at most one call checks a booking in (returns valid after
\* writing checkedInAt), and every call for the booking that starts after
\* that one has returned gets already_checked_in.
C27_CheckInOnce ==
    \A b \in DOMAIN bookings :
       /\ Cardinality(CheckedIn(b)) <= 1
       /\ \A i \in 1..Len(reqs) :
            (/\ reqs[i].kind = "qr" /\ reqs[i].pc = "done"
             /\ reqs[i].body.token = bookings[b].accessToken
             /\ reqs[i].after \cap CheckedIn(b) # {}) =>
               reqs[i].resp = QrResult("already_checked_in", "none")

\* C28: cancel is idempotent.  In every step a subscription that is cancelled
\* stays cancelled with the cancelledAt it has, and a cancel request of its
\* driver that is answered in the step for a subscription that is cancelled is
\* answered 200 success; this includes two cancel requests in flight together.
C28_CancelIdempotent ==
    [][ \A id \in DOMAIN subs :
          subs[id].status = "cancelled" =>
             /\ subs'[id].status = "cancelled"
             /\ subs'[id].cancelledAt = subs[id].cancelledAt
             /\ \A i \in 1..Len(reqs) :
                  (/\ Answered(i)
                   /\ reqs[i].kind = "cancel"
                   /\ reqs[i].pc \in {"get", "update"}
                   /\ reqs[i].body.body.subscriptionId = id
                   /\ reqs[i].auth = subs[id].driverId) =>
                     reqs'[i].resp = Respond(200, [success |-> TRUE]) ]_vars

\* C29: cancelled is terminal.  In every step of checkout, cancel and verify
\* requests a subscription that is cancelled stays in the store with status
\* cancelled, and a checkout of the same driver for the same listing that is
\* answered 201 in the step names another subscription, whose accessToken is
\* not the cancelled one's.
C29_CancelledTerminal ==
    [][ \A id \in DOMAIN subs :
          subs[id].status = "cancelled" =>
             /\ id \in DOMAIN subs'
             /\ subs'[id].status = "cancelled"
             /\ \A i \in 1..Len(reqs) :
                  (/\ Answered(i)
                   /\ CheckoutAnswered(reqs', i, 201)
                   /\ reqs[i].auth = subs[id].driverId
                   /\ reqs[i].body.body.listingId = subs[id].listingId) =>
                     LET new == reqs'[i].resp.body.subscriptionId
                     IN  /\ new # id
                         /\ new \in DOMAIN subs' \ DOMAIN subs
                         /\ subs'[new].status = "active"
                         /\ subs'[new].accessToken # subs[id].accessToken ]_vars

\* a driver cancelled a subscription and then checked out again for the same
\* listing: the store holds the cancelled subscription and an active one
C29_Witness ==
    \E id, new \in DOMAIN subs :
       /\ id # new
       /\ subs[id].status = "cancelled" /\ subs[new].status = "active"
       /\ subs[new].driverId = subs[id].driverId
       /\ subs[new].listingId = subs[id].listingId
       /\ \E c, k \in 1..Len(reqs) :
            /\ CancelSucceeded(c, id)
            /\ CheckoutAnswered(reqs, k, 201)
            /\ reqs[k].resp.body.subscriptionId = new
            /\ c \in reqs[k].after

(***************************************************************************)
(* The QR URL: buildVerifyUrl and QRVerifier.handleVerify.                 *)
(***************************************************************************)
UrlPunct == { "/", "?", "=", " ", "%", "&", "\n", "\t", "~", "*", "'", "(", ")" }

UrlCode ==
    [ c \in UrlPunct |->
        CASE c = "/"  -> 47
          [] c = "?"  -> 63
          [] c = "="  -> 61
          [] c = " "  -> 32
          [] c = "%"  -> 37
          [] c = "&"  -> 38
          [] c = "\n" -> 10
          [] c = "\t" -> 9
          [] c = "~"  -> 126
          [] c = "*"  -> 42
          [] c = "'"  -> 39
          [] c = "("  -> 40
          [] OTHER    -> 41 ]

UrlChars == AsciiChars \cup UrlPunct

\* the code of a character of the alphabet
CharCode(c) == IF c \in AsciiChars THEN AsciiCode[c] ELSE UrlCode[c]

\* the character of a code; the codes that occur are those of the alphabet
CharOfCode(b) == CHOOSE c \in UrlChars : CharCode(c) = b

\* the characters encodeURIComponent leaves as they are: A-Z a-z 0-9 - _ . ! ~ * ' ( )
UriUnreserved == B64Set \cup { ".", "!", "~", "*", "'", "(", ")" }

HexDigits == << "0","1","2","3","4","5","6","7","8","9","A","B","C","D","E","F" >>

HexLower == << "0","1","2","3","4","5","6","7","8","9","a","b","c","d","e","f" >>

IsHex(c) == \E d \in 1..16 : c = HexDigits[d] \/ c = HexLower[d]

HexVal(c) == (CHOOSE d \in 1..16 : c = HexDigits[d] \/ c = HexLower[d]) - 1

\* the UTF-8 bytes of one character
CharBytes(c) == IF c = "U+E9" THEN <<195, 169>> ELSE <<CharCode(c)>>

\* %XX of one byte
PercentEncode(b) == << "%", HexDigits[(b \div 16) + 1], HexDigits[(b % 16) + 1] >>

\* encodeURIComponent(str)
encodeURIComponent(str) ==
    Flatten([ i \in 1..Len(str) |->
                IF str[i] \in UriUnreserved THEN <<str[i]>>
                ELSE LET bytes == CharBytes(str[i])
                     IN  Flatten([ k \in 1..Len(bytes) |-> PercentEncode(bytes[k]) ]) ])

\* str[i] opens an escape %XX
IsEscape(str, i) ==
    str[i] = "%" /\ i + 2 <= Len(str) /\ IsHex(str[i + 1]) /\ IsHex(str[i + 2])

\* the bytes decodeURIComponent reads: %XX is one byte, any other character its
\* UTF-8 bytes; a '%' without two hex digits after it is a URIError.  A hex
\* digit is never '%', so every '%' of the string opens an escape of its own.
UriBytes(str) ==
    IF \E i \in 1..Len(str) : str[i] = "%" /\ ~IsEscape(str, i) THEN Throw("URIError")
    ELSE [ok |-> TRUE,
          value |-> Flatten([ i \in 1..Len(str) |->
                       CASE str[i] = "%" ->
                              <<16 * HexVal(str[i + 1]) + HexVal(str[i + 2])>>
                         [] i > 1 /\ str[i - 1] = "%" -> <<>>
                         [] i > 2 /\ str[i - 2] = "%" -> <<>>
                         [] OTHER -> CharBytes(str[i]) ])]

\* the bytes are well-formed UTF-8: below 128, or the two bytes of U+E9
WellFormedUtf8(buf) ==
    \A i \in 1..Len(buf) :
       \/ buf[i] < 128
       \/ buf[i] = 195 /\ i < Len(buf) /\ buf[i + 1] = 169
       \/ buf[i] = 169 /\ i > 1 /\ buf[i - 1] = 195

\* decodeURIComponent(str)
decodeURIComponent(str) ==
    LET bytes == UriBytes(str)
    IN  IF ~bytes.ok THEN bytes
        ELSE IF ~WellFormedUtf8(bytes.value) THEN Throw("URIError")
        ELSE [ok |-> TRUE,
              value |-> Flatten([ i \in 1..Len(bytes.value) |->
                           CASE bytes.value[i] = 195 -> <<"U+E9">>
                             [] bytes.value[i] = 169 -> <<>>
                             [] OTHER -> <<CharOfCode(bytes.value[i])>> ])]

\* pat occurs in str at position i
OccursAt(str, pat, i) ==
    /\ i + Len(pat) - 1 <= Len(str)
    /\ \A k \in 1..Len(pat) : str[i + k - 1] = pat[k]

\* str.indexOf(pat) counted from 1, 0 when pat does not occur
IndexOf(str, pat) ==
    IF \E i \in 1..Len(str) : OccursAt(str, pat, i)
    THEN CHOOSE i \in 1..Len(str) :
            OccursAt(str, pat, i) /\ \A j \in 1..(i - 1) : ~OccursAt(str, pat, j)
    ELSE 0

\* str.includes(pat)
Includes(str, pat) == IndexOf(str, pat) # 0

\* str.split(pat)[1] for a str that includes pat: what lies between the first
\* occurrence of pat and the next one
SplitSecond(str, pat) ==
    LET rest == SubSeq(str, IndexOf(str, pat) + Len(pat), Len(str))
    IN  IF Includes(rest, pat) THEN SubSeq(rest, 1, IndexOf(rest, pat) - 1) ELSE rest

WhiteSpace == { " ", "\n", "\t" }

\* str.trim()
Trim(str) ==
    IF \A i \in 1..Len(str) : str[i] \in WhiteSpace THEN <<>>
    ELSE LET first == CHOOSE i \in 1..Len(str) :
                        str[i] \notin WhiteSpace /\ \A j \in 1..(i - 1) : str[j] \in WhiteSpace
             last == CHOOSE i \in 1..Len(str) :
                        str[i] \notin WhiteSpace /\ \A j \in (i + 1)..Len(str) : str[j] \in WhiteSpace
         IN  SubSeq(str, first, last)

TokenParam == << "?", "t", "o", "k", "e", "n", "=" >>

VerifyPath == << "/", "a", "p", "i", "/", "v", "e", "r", "i", "f", "y" >>

\* the default base URL and a configured one
BaseUrls ==
    { << "h","t","t","p",":","/","/","l","o","c","a","l","h","o","s","t",":","3","0","0","0" >>,
      << "h","t","t","p","s",":","/","/","p",".","c","a" >> }

\* buildVerifyUrl(accessToken) with the base URL of the environment
buildVerifyUrl(accessToken, baseUrl) ==
    baseUrl \o VerifyPath \o TokenParam \o encodeURIComponent(accessToken)

\* (mutant) the raw input is submitted as it was pasted
ExtractTokenUntrimmed(input) ==
    IF Includes(input, TokenParam) THEN decodeURIComponent(SplitSecond(input, TokenParam))
    ELSE [ok |-> TRUE, value |-> input]

\* handleVerify: the token taken from the input, or the URIError
ExtractToken(input) ==
    IF Includes(input, TokenParam) THEN decodeURIComponent(SplitSecond(input, TokenParam))
    ELSE [ok |-> TRUE, value |-> Trim(input)]

\* what surrounds a pasted token
Paddings == { <<>>, <<" ">>, <<"\n">>, <<"\t", " ">> }

UrlInit ==
    /\ bookings = <<>>
    /\ pages = <<>>
    /\ reviews = <<>>
    /\ secret \in Secrets
    /\ now \in TokTimes
    /\ \E b \in TokIds, u \in TokIds :
         tk = [phase |-> "args", bookingId |-> b, userId |-> u, token |-> <<>>,
               form |-> "none", input |-> <<>>,
               result |-> [ok |-> FALSE, error |-> "none"]]
    /\ subs = <<>>
    /\ reqs = <<>>
    /\ price = [phase |-> "off"]

\* signAccessToken(bookingId, userId)
UrlIssue ==
    /\ tk.phase = "args"
    /\ LET r == signAccessToken(tk.bookingId, tk.userId, now, secret)
       IN  tk' = IF r.ok THEN [tk EXCEPT !.phase = "token", !.token = r.value]
                 ELSE [tk EXCEPT !.phase = "threw", !.result = r]
    /\ UNCHANGED <<bookings, pages, reviews, secret, now, subs, reqs, price>>

\* the URL of the QR code is scanned into the input
UrlScan ==
    /\ tk.phase = "token"
    /\ \E baseUrl \in BaseUrls :
         tk' = [tk EXCEPT !.phase = "input", !.form = "url",
                          !.input = buildVerifyUrl(tk.token, baseUrl)]
    /\ UNCHANGED <<bookings, pages, reviews, secret, now, subs, reqs, price>>

\* the raw token is pasted into the input with whitespace around it
UrlPaste ==
    /\ tk.phase = "token"
    /\ \E before \in Paddings, after \in Paddings :
         tk' = [tk EXCEPT !.phase = "input", !.form = "raw",
                          !.input = before \o tk.token \o after]
    /\ UNCHANGED <<bookings, pages, reviews, secret, now, subs, reqs, price>>

\* nothing but whitespace is typed into the input
UrlBlank ==
    /\ tk.phase = "token"
    /\ \E pad \in Paddings :
         tk' = [tk EXCEPT !.phase = "input", !.form = "blank", !.input = pad]
    /\ UNCHANGED <<bookings, pages, reviews, secret, now, subs, reqs, price>>

\* handleVerify up to the body of the request it sends
UrlVerify ==
    /\ tk.phase = "input"
    /\ tk' = IF Trim(tk.input) = <<>> THEN [tk EXCEPT !.phase = "ignored"]
             ELSE [tk EXCEPT !.phase = "submitted", !.result = ExtractToken(tk.input)]
    /\ UNCHANGED <<bookings, pages, reviews, secret, now, subs, reqs, price>>

UrlNext == UrlIssue \/ UrlScan \/ UrlPaste \/ UrlBlank \/ UrlVerify

SpecUrl == UrlInit /\ [][UrlNext]_vars

\* C30: for every token signAccessToken produces, the token handleVerify
\* submits is exactly that token, both when the input is the URL built by
\* buildVerifyUrl and when it is the raw token with whitespace around it.
C30_UrlRoundTrip ==
    (tk.phase = "submitted" /\ tk.form \in {"url", "raw"}) =>
       tk.result = [ok |-> TRUE, value |-> tk.token]

\* a token pasted with whitespace on both sides was submitted
C30_Witness ==
    /\ tk.phase = "submitted" /\ tk.form = "raw"
    /\ tk.input # tk.token
    /\ tk.input[1] \in WhiteSpace /\ tk.input[Len(tk.input)] \in WhiteSpace
    /\ tk.result.ok

\* the URL with the default base was scanned and a token was submitted
C30_WitnessUrl ==
    /\ tk.phase = "submitted" /\ tk.form = "url"
    /\ Includes(tk.input, TokenParam)
    /\ tk.result.ok

====
